---- MODULE Spec2Model ----
(***************************************************************************)
(* A model of the MCP Research Assistant's core:                           *)
(*   - the text segmenter      mcp_server/ingest/pdf_ingest.py _chunk_text *)
(*   - the ingestion loop      mcp_server/ingest/pdf_ingest.py ingest_folder*)
(*   - the query normaliser    mcp_server/vectorstore.py VectorStore.query *)
(*   - the citation builder    mcp_server/citations.py build_citations     *)
(*   - the server's singletons mcp_server/server.py _get_store, reset tool *)
(* Each component has its own specification (SpecChunk, SpecIngest,        *)
(* SpecQuery, SpecCite, SpecServer) over its own variables; the variables  *)
(* of the other components stay at their idle values.                      *)
(*                                                                         *)
(* Texts are sequences of one-character strings.  Python's None, floats    *)
(* and dicts are tagged records [t |-> tag, v |-> payload].                *)
(***************************************************************************)
EXTENDS Integers, Sequences, FiniteSets, TLC

VARIABLES
    \* _chunk_text
    text, chunk_size, overlap, tokens, chunks, i, seg_pc,
    \* ingest_folder (pdf_ingest.py)
    files, store, pre_store, total_chunks, file_idx, ing_pc,
    extracted, encoded, added, uuid_ctr, fail_at,
    \* VectorStore.query
    collection, top_k, out, results, qry_pc, answer_kind,
    \* build_citations
    identifiers, style, issued, messages, cit_pc, cit_out, cit_idx, cit_fail_at,
    \* server.py
    _store, _embeddings, api_key, disk, srv_last

segVars == <<text, chunk_size, overlap, tokens, chunks, i, seg_pc>>
ingVars == <<files, store, pre_store, total_chunks, file_idx, ing_pc,
             extracted, encoded, added, uuid_ctr, fail_at>>
qryVars == <<collection, top_k, out, results, qry_pc, answer_kind>>
citVars == <<identifiers, style, issued, messages, cit_pc, cit_out, cit_idx,
             cit_fail_at>>
srvVars == <<_store, _embeddings, api_key, disk, srv_last>>
vars == <<segVars, ingVars, qryVars, citVars, srvVars>>

----------------------------------------------------------------------------
(* Bounds of the model.                                                    *)

MaxTextLen == 6
MaxChunkSize == 3
MaxOverlap == 3
\* Cap on the chunks list: only a loop that never ends reaches it.
MaxChunks == 4

----------------------------------------------------------------------------
(* Characters and strings.                                                 *)

\* The characters Python's \s and str.strip() treat as whitespace (the ones
\* the model's texts use).
Whitespace == {" ", "\n", "\t"}
IsSpace(c) == c \in Whitespace

\* The characters the segmenter's bounded input texts are drawn from.
Alphabet == {"a", "b", " "}

RECURSIVE SeqsUpTo(_, _)
SeqsUpTo(S, n) ==
    IF n = 0 THEN {<<>>}
    ELSE LET shorter == SeqsUpTo(S, n - 1)
         IN shorter \cup {Append(s, c) : s \in {t \in shorter : Len(t) = n - 1}, c \in S}

\* Length of the run of characters of s starting at position k (1-based)
\* that are all whitespace (sp = TRUE) or all non-whitespace (sp = FALSE).
RECURSIVE RunLen(_, _, _)
RunLen(s, k, sp) ==
    IF k > Len(s) \/ IsSpace(s[k]) # sp THEN 0
    ELSE 1 + RunLen(s, k + 1, sp)

\* re.findall(r"\S+\s*", text) from position k on: leftmost, greedy,
\* non-overlapping matches; characters before a match (leading whitespace)
\* belong to no match.
RECURSIVE FindAllFrom(_, _)
FindAllFrom(s, k) ==
    IF k > Len(s) THEN <<>>
    ELSE IF IsSpace(s[k]) THEN FindAllFrom(s, k + 1)
    ELSE LET a == RunLen(s, k, FALSE)
             b == RunLen(s, k + a, TRUE)
         IN <<SubSeq(s, k, k + a + b - 1)>> \o FindAllFrom(s, k + a + b)

FindAll(s) == FindAllFrom(s, 1)

\* "".join(parts)
RECURSIVE Join(_)
Join(parts) ==
    IF parts = <<>> THEN <<>> ELSE Head(parts) \o Join(Tail(parts))

\* str.lstrip() / str.rstrip() / str.strip()
RECURSIVE LStrip(_)
LStrip(s) ==
    IF s # <<>> /\ IsSpace(Head(s)) THEN LStrip(Tail(s)) ELSE s

RECURSIVE RStrip(_)
RStrip(s) ==
    IF s # <<>> /\ IsSpace(s[Len(s)]) THEN RStrip(SubSeq(s, 1, Len(s) - 1)) ELSE s

Strip(s) == RStrip(LStrip(s))

\* Python's s[lo:hi] on a list: negative indices count from the end, and
\* both ends are clamped to 0..len(s).
PyIndex(n, k) ==
    IF k < 0 THEN (IF k + n < 0 THEN 0 ELSE k + n)
    ELSE (IF k > n THEN n ELSE k)

PySlice(s, lo, hi) ==
    LET a == PyIndex(Len(s), lo)
        b == PyIndex(Len(s), hi)
    IN IF a >= b THEN <<>> ELSE SubSeq(s, a + 1, b)

----------------------------------------------------------------------------
(* _chunk_text                                                             *)

\* One pass of the while body: the chunk built at window start w.
ChunkAt(toks, size, w) == Strip(Join(PySlice(toks, w, w + size)))

\* Faulty variant of Advance: the overlap is forgotten.
AdvanceNoOverlap(w, size, ov) == w + size

\* The window start after one pass: i += chunk_size - overlap.
Advance(w, size, ov) == w + size - ov

\* The whole function, for parameters with which the loop ends
\* (0 <= overlap < chunk_size).
RECURSIVE ChunkFrom(_, _, _, _)
ChunkFrom(toks, size, ov, w) ==
    IF w < Len(toks)
    THEN <<ChunkAt(toks, size, w)>> \o ChunkFrom(toks, size, ov, Advance(w, size, ov))
    ELSE <<>>

ChunkText(s, size, ov) == ChunkFrom(FindAll(s), size, ov, 0)

SegIdle ==
    /\ text = <<>> /\ chunk_size = 1 /\ overlap = 0
    /\ tokens = <<>> /\ chunks = <<>> /\ i = 0 /\ seg_pc = "idle"

\* The call _chunk_text(text, chunk_size, overlap) is made.
SegInit ==
    /\ text \in SeqsUpTo(Alphabet, MaxTextLen)
    /\ chunk_size \in 1..MaxChunkSize
    /\ overlap \in 0..MaxOverlap
    /\ tokens = <<>> /\ chunks = <<>> /\ i = 0
    /\ seg_pc = "start"

\* tokens = re.findall(...); chunks = []; i = 0
ChunkStart ==
    /\ seg_pc = "start"
    /\ tokens' = FindAll(text)
    /\ chunks' = <<>>
    /\ i' = 0
    /\ seg_pc' = "loop"
    /\ UNCHANGED <<text, chunk_size, overlap>>

\* One pass of "while i < len(tokens)".
ChunkLoop ==
    /\ seg_pc = "loop"
    /\ i < Len(tokens)
    /\ Len(chunks) < MaxChunks
    /\ chunks' = Append(chunks, ChunkAt(tokens, chunk_size, i))
    /\ i' = Advance(i, chunk_size, overlap)
    /\ UNCHANGED <<text, chunk_size, overlap, tokens, seg_pc>>

\* The loop condition is false: return chunks.
ChunkReturn ==
    /\ seg_pc = "loop"
    /\ ~(i < Len(tokens))
    /\ seg_pc' = "done"
    /\ UNCHANGED <<text, chunk_size, overlap, tokens, chunks, i>>

----------------------------------------------------------------------------
(* ingest_folder (pdf_ingest.py)                                           *)

\* Bound on the number of files os.walk yields.
MaxFiles == 3

\* _chunk_text's defaults (chunk_size=800, overlap=120), scaled down so that
\* the model's short documents span several windows.
DefaultChunkSize == 3
DefaultOverlap == 1

\* str.lower() on the file name extensions ".pdf", ".PDF", ".txt".
Lower(ext) == IF ext = ".PDF" THEN ".pdf" ELSE ext

\* name.lower().endswith(".pdf")
IsPdf(f) == Lower(f.ext) = ".pdf"

LongText == <<" ", "a", " ", "b", "\n", "c", " ", "d", " ", "e", "\n">>

\* What the extractor returns for the model's documents: nothing, only
\* whitespace, one window of tokens, several windows of tokens.
DocTexts ==
    { <<>>,
      <<" ", "\n">>,
      <<"a", " ", "b">>,
      LongText }

\* The files of the walk: PDFs of every text, one PDF with an upper-case
\* extension, one file that is no PDF.
FileSet ==
    [ext : {".pdf"}, text : DocTexts]
        \cup {[ext |-> ".PDF", text |-> LongText], [ext |-> ".txt", text |-> LongText]}

\* full = os.path.join(root, name): the k-th file of the walk has a path of
\* its own.
FullPath(k) == k

\* The store's entries before the call: none, or one of an earlier ingest.
OldEntry == [id |-> <<0, 0>>, text |-> <<"z">>,
             meta |-> [source |-> 0, chunk_index |-> 0]]

\* Faulty variant of Range: counting from 1.
RangeFromOne(n) == [j \in 1..n |-> j]

\* range(len(chunks)) as a sequence: 0 .. n-1.
Range(n) == [j \in 1..n |-> j - 1]

\* ids = [f"{uuid.uuid4().hex}-{i}" for i in range(len(chunks))]: a fresh
\* uuid for every chunk, u being the number of uuids drawn so far.
MakeIds(u, n) == [j \in 1..n |-> <<u + j, Range(n)[j]>>]

\* metas = [{"source": full, "chunk_index": i} for i in range(len(chunks))]
MakeMetas(full, n) == [j \in 1..n |-> [source |-> full, chunk_index |-> Range(n)[j]]]

\* VectorStore.add -> collection.add(ids, documents, metadatas): the entries
\* are appended to the collection.
StoreAdd(st, ids, texts, metas) ==
    st \o [j \in 1..Len(ids) |-> [id |-> ids[j], text |-> texts[j], meta |-> metas[j]]]

\* Faulty variant of NoChunks: the test is missing.
NoChunksNever(chs) == FALSE

\* "if not chunks: continue"
NoChunks(chs) == chs = <<>>

\* Faulty variant of OnFileError: the error is swallowed and the walk goes
\* on with the next file.
OnFileErrorSkipFile(k) == [pc |-> "run", idx |-> k + 1]

\* No try/except in ingest_folder: an exception of the extractor, the
\* embedding provider or the store leaves the loops and the call.
OnFileError(k) == [pc |-> "raised", idx |-> k]

\* total_chunks += len(chunks)
AddToTotal(total, chs) == total + Len(chs)

IngIdle ==
    /\ files = <<>> /\ store = <<>> /\ pre_store = <<>> /\ total_chunks = 0
    /\ file_idx = 0 /\ ing_pc = "idle" /\ extracted = <<>> /\ encoded = <<>>
    /\ added = <<>> /\ uuid_ctr = 0 /\ fail_at = 0

\* The call ingest_folder(path, embeddings, store): files is what os.walk
\* yields under path, in order; total_chunks = 0.
IngInit ==
    /\ files \in UNION {[1..n -> FileSet] : n \in 0..MaxFiles}
    /\ store \in {<<>>, <<OldEntry>>}
    /\ pre_store = store
    /\ total_chunks = 0
    /\ file_idx = 1
    /\ ing_pc = "run"
    /\ extracted = <<>> /\ encoded = <<>> /\ added = <<>>
    /\ uuid_ctr = 0
    /\ fail_at = 0

CurChunks == ChunkText(files[file_idx].text, DefaultChunkSize, DefaultOverlap)

InLoop == ing_pc = "run" /\ file_idx <= Len(files)

\* A file whose name does not end in .pdf: the loop goes on.
IngestSkipNonPdf ==
    /\ InLoop
    /\ ~IsPdf(files[file_idx])
    /\ file_idx' = file_idx + 1
    /\ UNCHANGED <<files, store, pre_store, total_chunks, ing_pc, extracted,
                   encoded, added, uuid_ctr, fail_at>>

\* _extract_text_from_pdf(full) raises.
IngestExtractRaises ==
    /\ InLoop
    /\ IsPdf(files[file_idx])
    /\ extracted' = Append(extracted, FullPath(file_idx))
    /\ fail_at' = file_idx
    /\ ing_pc' = OnFileError(file_idx).pc
    /\ file_idx' = OnFileError(file_idx).idx
    /\ UNCHANGED <<files, store, pre_store, total_chunks, encoded, added, uuid_ctr>>

\* The text has no token: "continue".
IngestSkipEmpty ==
    /\ InLoop
    /\ IsPdf(files[file_idx])
    /\ NoChunks(CurChunks)
    /\ extracted' = Append(extracted, FullPath(file_idx))
    /\ file_idx' = file_idx + 1
    /\ UNCHANGED <<files, store, pre_store, total_chunks, ing_pc, encoded,
                   added, uuid_ctr, fail_at>>

\* embeddings.encode(chunks) raises.
IngestEncodeRaises ==
    /\ InLoop
    /\ IsPdf(files[file_idx])
    /\ ~NoChunks(CurChunks)
    /\ extracted' = Append(extracted, FullPath(file_idx))
    /\ encoded' = Append(encoded, [source |-> FullPath(file_idx), n |-> Len(CurChunks)])
    /\ fail_at' = file_idx
    /\ ing_pc' = OnFileError(file_idx).pc
    /\ file_idx' = OnFileError(file_idx).idx
    /\ UNCHANGED <<files, store, pre_store, total_chunks, added, uuid_ctr>>

\* store.add(ids, chunks, metas) raises: collection.add has added nothing.
IngestAddRaises ==
    /\ InLoop
    /\ IsPdf(files[file_idx])
    /\ ~NoChunks(CurChunks)
    /\ extracted' = Append(extracted, FullPath(file_idx))
    /\ encoded' = Append(encoded, [source |-> FullPath(file_idx), n |-> Len(CurChunks)])
    /\ added' = Append(added, [source |-> FullPath(file_idx), n |-> Len(CurChunks)])
    /\ uuid_ctr' = uuid_ctr + Len(CurChunks)
    /\ fail_at' = file_idx
    /\ ing_pc' = OnFileError(file_idx).pc
    /\ file_idx' = OnFileError(file_idx).idx
    /\ UNCHANGED <<files, store, pre_store, total_chunks>>

\* The file's chunks are embedded and committed.
IngestCommit ==
    /\ InLoop
    /\ IsPdf(files[file_idx])
    /\ ~NoChunks(CurChunks)
    /\ LET n == Len(CurChunks)
       IN /\ extracted' = Append(extracted, FullPath(file_idx))
          /\ encoded' = Append(encoded, [source |-> FullPath(file_idx), n |-> n])
          /\ added' = Append(added, [source |-> FullPath(file_idx), n |-> n])
          /\ store' = StoreAdd(store, MakeIds(uuid_ctr, n), CurChunks,
                               MakeMetas(FullPath(file_idx), n))
          /\ uuid_ctr' = uuid_ctr + n
          /\ total_chunks' = AddToTotal(total_chunks, CurChunks)
    /\ file_idx' = file_idx + 1
    /\ UNCHANGED <<files, pre_store, ing_pc, fail_at>>

\* The walk is over: return total_chunks.
IngestReturn ==
    /\ ing_pc = "run"
    /\ file_idx > Len(files)
    /\ ing_pc' = "returned"
    /\ UNCHANGED <<files, store, pre_store, total_chunks, file_idx, extracted,
                   encoded, added, uuid_ctr, fail_at>>

----------------------------------------------------------------------------
(* VectorStore.query                                                       *)

\* Bounds: entries in the collection, and the largest top_k asked for.
MaxEntries == 3
MaxTopK == 5

PyNone == [t |-> "None", v |-> 0]
PyFloat(x) == [t |-> "float", v |-> x]
PyDict(d) == [t |-> "dict", v |-> d]
\* {} : the mapping with no key.
EmptyDict == PyDict(0)

Min(a, b) == IF a < b THEN a ELSE b

\* The collection as the store ranks it for the question, best match first;
\* the k-th best match lies at distance k tenths.
EntrySet == [text : {"x", "y"}, meta : {PyDict(1), PyDict(2)}]
Collections == UNION {[1..n -> EntrySet] : n \in 0..MaxEntries}
Distance(k) == PyFloat(k)

\* A field of collection.query's answer: [[...]] (one inner list per query
\* embedding), or a value out.get(...) finds falsy (no key, None, []).
Nested(xs) == [t |-> "nested", v |-> xs]
Falsy == [t |-> "falsy", v |-> <<>>]

\* collection.query(query_embeddings=[e], n_results=top_k): the top_k best
\* matches, or all of them when the collection holds fewer.
Matches(c, k) == SubSeq(c, 1, Min(k, Len(c)))
ChromaAnswer(c, k) ==
    LET ms == Matches(c, k)
    IN [documents |-> Nested([j \in 1..Len(ms) |-> ms[j].text]),
        metadatas |-> Nested([j \in 1..Len(ms) |-> ms[j].meta]),
        distances |-> Nested([j \in 1..Len(ms) |-> Distance(j)])]

\* Other answers a store may give: a field missing, a list shorter than
\* the documents, a None in place of an entry.
DropLast(xs) == IF xs = <<>> THEN xs ELSE SubSeq(xs, 1, Len(xs) - 1)
Degrade(field, mode, pos) ==
    CASE mode = "full" -> field
      [] mode = "falsy" -> Falsy
      [] mode = "short" -> Nested(DropLast(field.v))
      [] mode = "null" ->
            Nested([j \in 1..Len(field.v) |-> IF j = pos THEN PyNone ELSE field.v[j]])
DegradeModes == {"full", "falsy", "short", "null"}

\* out.get(key, [[]])[0] if out.get(key) else []
Inner(field) == IF field.t = "nested" THEN field.v ELSE <<>>

\* float(x) raises TypeError on None.
FloatRaises(x) == x.t = "None"
Float(x) == PyFloat(x.v)

\* The score when the store gave no distance for a match.
SentinelScore == PyFloat(10)

\* Faulty variant of Normalise: the results come out worst match first.
NormaliseReranked(o) ==
    LET docs == Inner(o.documents)
        metas == Inner(o.metadatas)
        dists == Inner(o.distances)
        n == Len(docs)
    IN [k \in 1..n |->
          [text |-> docs[n + 1 - k],
           meta |-> IF n + 1 - k <= Len(metas) THEN metas[n + 1 - k] ELSE EmptyDict,
           score |-> IF n + 1 - k <= Len(dists) THEN Float(dists[n + 1 - k])
                     ELSE SentinelScore]]

\* The for loop of query: one result per document, in the store's order.
Normalise(o) ==
    LET docs == Inner(o.documents)
        metas == Inner(o.metadatas)
        dists == Inner(o.distances)
    IN [k \in 1..Len(docs) |->
          [text |-> docs[k],
           meta |-> IF k <= Len(metas) THEN metas[k] ELSE EmptyDict,
           score |-> IF k <= Len(dists) THEN Float(dists[k]) ELSE SentinelScore]]

\* Whether the loop meets a distance float() rejects.
NormaliseRaises(o) ==
    \E k \in 1..Len(Inner(o.documents)) :
        k <= Len(Inner(o.distances)) /\ FloatRaises(Inner(o.distances)[k])

NoAnswer == [documents |-> Falsy, metadatas |-> Falsy, distances |-> Falsy]

QryIdle ==
    /\ collection = <<>> /\ top_k = 1 /\ out = NoAnswer /\ results = <<>>
    /\ qry_pc = "idle" /\ answer_kind = "none"

\* The call query(question, embeddings, top_k) on a store holding collection.
QryInit ==
    /\ collection \in Collections
    /\ top_k \in 1..MaxTopK
    /\ out = NoAnswer
    /\ results = <<>>
    /\ qry_pc = "call"
    /\ answer_kind = "none"

\* embeddings.encode([question]) raises.
QueryEncodeRaises ==
    /\ qry_pc = "call"
    /\ qry_pc' = "raised_by_provider"
    /\ UNCHANGED <<collection, top_k, out, results, answer_kind>>

\* collection.query raises.
QueryStoreRaises ==
    /\ qry_pc = "call"
    /\ qry_pc' = "raised_by_store"
    /\ UNCHANGED <<collection, top_k, out, results, answer_kind>>

\* The rest of the call on the store's answer o.
QueryOn(o) ==
    /\ out' = o
    /\ IF NormaliseRaises(o)
       THEN /\ qry_pc' = "raised_by_query"
            /\ results' = results
       ELSE /\ qry_pc' = "returned"
            /\ results' = Normalise(o)
    /\ UNCHANGED <<collection, top_k>>

\* The store answers with its matches, every field filled.
QueryChroma ==
    /\ qry_pc = "call"
    /\ answer_kind' = "chroma"
    /\ QueryOn(ChromaAnswer(collection, top_k))

\* The store answers with fields missing, short or holding None.
QueryDegraded ==
    /\ qry_pc = "call"
    /\ answer_kind' = "degraded"
    /\ \E mm \in DegradeModes, dm \in DegradeModes, pos \in 1..MaxEntries :
          /\ ~(mm = "full" /\ dm = "full")
          /\ LET a == ChromaAnswer(collection, top_k)
             IN QueryOn([documents |-> a.documents,
                         metadatas |-> Degrade(a.metadatas, mm, pos),
                         distances |-> Degrade(a.distances, dm, pos)])

----------------------------------------------------------------------------
(* build_citations                                                         *)

\* Bound on the length of the identifier list.
MaxIds == 3

\* An identifier is a sequence of pieces; Marker is the piece "doi.org/".
Marker == "doi.org/"
IdentifierSet ==
    { <<"10.1/a">>,
      <<"https://", Marker, "10.1/b">>,
      <<"http://dx.", Marker, "10.1/a">> }

\* identifier.split("doi.org/")[-1] when the marker occurs, else identifier.
LastMarker(id) ==
    LET at == {k \in 1..Len(id) : id[k] = Marker}
    IN IF at = {} THEN 0 ELSE CHOOSE k \in at : \A j \in at : j <= k
DoiOf(id) == SubSeq(id, LastMarker(id) + 1, Len(id))

PyInt(n) == [t |-> "int", v |-> n]

\* r.json().get("message", {}) for a DOI the resolver knows: records with
\* and without authors, with and without a year.
MessagesFor(doi) ==
    [DOI : {doi}, author : {<<>>, <<[family |-> "Doe", given |-> "Jane"]>>},
     title : {<<"A Study">>}, year : {PyNone, PyInt(2021)}]

StrOfInt(n) == CASE n = 2021 -> "2021" [] OTHER -> "0"

\* _to_bibtex
ToBibtex(m) ==
    LET year_str == IF m.year.t = "None" THEN "" ELSE StrOfInt(m.year.v)
        family == IF m.author # <<>> THEN m.author[1].family ELSE "paper"
    IN [key |-> <<family, year_str>>,
        title |-> m.title[1],
        author |-> [k \in 1..Len(m.author) |-> <<m.author[k].family, ", ", m.author[k].given>>],
        year |-> year_str,
        doi |-> m.DOI]

\* style.lower() == "bibtex"
Styles == {"bibtex", "BibTeX", "json"}
LowerStyle(st) == IF st = "BibTeX" THEN "bibtex" ELSE st
IsBibtex(st) == LowerStyle(st) = "bibtex"

\* The returned string: the entries joined by a blank line, or json.dumps of
\* the records.
Render(st, ms) ==
    IF IsBibtex(st)
    THEN [t |-> "bibtex", v |-> [k \in 1..Len(ms) |-> ToBibtex(ms[k])]]
    ELSE [t |-> "json", v |-> ms]

NoOutput == [t |-> "none", v |-> <<>>]

\* Faulty variant of OnLookupError: the failing identifier is left out and
\* the lookups go on.
OnLookupErrorSkip(k) == [pc |-> "lookup", idx |-> k + 1]

\* The list comprehension has no try/except: a lookup that raises ends the
\* call at identifier k.
OnLookupError(k) == [pc |-> "raised", idx |-> k]

CitIdle ==
    /\ identifiers = <<>> /\ style = "bibtex" /\ issued = <<>> /\ messages = <<>>
    /\ cit_pc = "idle" /\ cit_out = NoOutput /\ cit_idx = 0 /\ cit_fail_at = 0

\* The call build_citations(identifiers, style).
CitInit ==
    /\ identifiers \in UNION {[1..n -> IdentifierSet] : n \in 0..MaxIds}
    /\ style \in Styles
    /\ issued = <<>> /\ messages = <<>>
    /\ cit_pc = "lookup"
    /\ cit_out = NoOutput
    /\ cit_idx = 1
    /\ cit_fail_at = 0

InLookups == cit_pc = "lookup" /\ cit_idx <= Len(identifiers)

\* _crossref_lookup(x) returns the resolver's record.
CiteLookupOk ==
    /\ InLookups
    /\ issued' = Append(issued, DoiOf(identifiers[cit_idx]))
    /\ \E m \in MessagesFor(DoiOf(identifiers[cit_idx])) :
          messages' = Append(messages, m)
    /\ cit_idx' = cit_idx + 1
    /\ UNCHANGED <<identifiers, style, cit_pc, cit_out, cit_fail_at>>

\* requests.get or raise_for_status raises.
CiteLookupRaises ==
    /\ InLookups
    /\ issued' = Append(issued, DoiOf(identifiers[cit_idx]))
    /\ cit_fail_at' = IF cit_fail_at = 0 THEN cit_idx ELSE cit_fail_at
    /\ cit_pc' = OnLookupError(cit_idx).pc
    /\ cit_idx' = OnLookupError(cit_idx).idx
    /\ UNCHANGED <<identifiers, style, messages, cit_out>>

\* Every lookup returned: the records are rendered and returned.
CiteReturn ==
    /\ cit_pc = "lookup"
    /\ cit_idx > Len(identifiers)
    /\ cit_out' = Render(style, messages)
    /\ cit_pc' = "returned"
    /\ UNCHANGED <<identifiers, style, issued, messages, cit_idx, cit_fail_at>>

----------------------------------------------------------------------------
(* server.py: the lazy singletons and the tools that use them              *)

\* Bound on the chunks the storage directory holds.
MaxStored == 2

\* What reset_chroma_tool's path can name: the configured storage directory
\* (no input, or the same path), a directory that holds it, another
\* directory, a path that does not exist.
ResetTargets == {"store", "ancestor", "other", "missing"}

\* disk.store_dir: the storage directory is "absent", "intact", or "gutted"
\* (there, with some of its files removed).  disk.ancestor, disk.sibling:
\* the directory holding it, and another entry of that directory.
\* disk.other: a directory elsewhere.  disk.entries: chunks stored.
DiskSet ==
    [store_dir : {"absent", "intact", "gutted"}, ancestor : BOOLEAN,
     sibling : BOOLEAN, other : BOOLEAN, entries : 0..MaxStored]

NoResponse == [tool |-> "none", path |-> "none", status |-> "none"]

SrvIdle ==
    /\ _store = "None" /\ _embeddings = "None" /\ api_key = FALSE
    /\ disk = [store_dir |-> "absent", ancestor |-> FALSE, sibling |-> FALSE,
               other |-> FALSE, entries |-> 0]
    /\ srv_last = NoResponse

\* The module is imported: both singletons are None; the storage directory
\* may be there from an earlier run.
SrvInit ==
    /\ _store = "None"
    /\ _embeddings = "None"
    /\ api_key \in BOOLEAN
    /\ disk \in {d \in DiskSet :
                    /\ d.store_dir # "gutted"
                    /\ d.ancestor
                    /\ (d.store_dir = "absent" => d.entries = 0)}
    /\ srv_last = NoResponse

\* os.path.exists(abs_path)
Exists(d, target) ==
    CASE target = "store" -> d.store_dir # "absent"
      [] target = "ancestor" -> d.ancestor
      [] target = "other" -> d.other
      [] target = "missing" -> FALSE

\* shutil.rmtree(abs_path) returns: the tree is gone.
Removed(d, target) ==
    CASE target = "store" -> [d EXCEPT !.store_dir = "absent", !.entries = 0]
      [] target = "ancestor" ->
            [d EXCEPT !.store_dir = "absent", !.entries = 0, !.sibling = FALSE,
                      !.ancestor = FALSE]
      [] target = "other" -> [d EXCEPT !.other = FALSE]

\* shutil.rmtree(abs_path) raises: what it removed before the error stays
\* removed; the directory itself is still there.
PartlyRemoved(d, target) ==
    CASE target = "store" ->
            {d, [d EXCEPT !.store_dir = "gutted", !.entries = 0]}
      [] target = "ancestor" ->
            {[d EXCEPT !.store_dir = sd, !.sibling = sb,
                       !.entries = IF sd = d.store_dir THEN d.entries ELSE 0] :
                sd \in {d.store_dir} \cup (IF d.store_dir = "absent" THEN {}
                                           ELSE {"gutted", "absent"}),
                sb \in {d.sibling, FALSE}}
      [] target = "other" -> {d}

\* _get_embeddings(): Embeddings() raises without OPENAI_API_KEY.
EmbeddingsRaises == _embeddings = "None" /\ ~api_key
GetEmbeddings == IF EmbeddingsRaises THEN _embeddings ELSE "Embeddings"

\* VectorStore(path=CONFIG["chromadb_path"]): PersistentClient creates the
\* directory when it is absent and opens it when it is there; on a gutted
\* directory it raises or starts over.
Opened(d) ==
    CASE d.store_dir = "absent" ->
            {[d EXCEPT !.store_dir = "intact", !.ancestor = TRUE, !.entries = 0]}
      [] d.store_dir = "intact" -> {d}
      [] d.store_dir = "gutted" -> {[d EXCEPT !.store_dir = "intact", !.entries = 0]}
OpenMayRaise(d) == d.store_dir = "gutted"

\* "global _store; _store = None" after the removal.
AfterRemoval(h) == "None"

\* The tool's response; path is what reset_chroma_tool was asked to remove.
Respond(tool, path, status) ==
    srv_last' = [tool |-> tool, path |-> path, status |-> status]

\* A tool's "try" block ends in _get_embeddings().
ToolNoProvider(tool) ==
    /\ EmbeddingsRaises
    /\ Respond(tool, "none", "error")
    /\ UNCHANGED <<_store, _embeddings, api_key, disk>>

\* A tool's "try" block ends in _get_store(): VectorStore() raises.
ToolOpenRaises(tool) ==
    /\ ~EmbeddingsRaises
    /\ _store = "None"
    /\ OpenMayRaise(disk)
    /\ _embeddings' = GetEmbeddings
    /\ Respond(tool, "none", "error")
    /\ UNCHANGED <<_store, api_key, disk>>

\* Both singletons are there (built now or cached) and the tool uses the
\* store: it commits n chunks (an ingest over an intact directory only) and
\* responds; a failure after some commits leaves them in place.  On a
\* handle whose directory is gone or gutted the call fails or goes nowhere.
ToolRuns(tool, writes) ==
    /\ ~EmbeddingsRaises
    /\ _embeddings' = GetEmbeddings
    /\ _store' = "VectorStore"
    /\ \E d \in (IF _store = "None" THEN Opened(disk) ELSE {disk}),
          n \in 0..MaxStored, status \in {"success", "error"} :
          /\ n > 0 => (writes /\ d.store_dir = "intact" /\ d.entries + n <= MaxStored)
          /\ disk' = [d EXCEPT !.entries = @ + n]
          /\ Respond(tool, "none", status)
    /\ UNCHANGED api_key

\* The tool ingest_folder.
IngestToolNoProvider == ToolNoProvider("ingest_folder")
IngestToolOpenRaises == ToolOpenRaises("ingest_folder")
IngestToolRuns == ToolRuns("ingest_folder", TRUE)

\* The tool query_memory.
QueryToolNoProvider == ToolNoProvider("query_memory")
QueryToolOpenRaises == ToolOpenRaises("query_memory")
QueryToolRuns == ToolRuns("query_memory", FALSE)

\* The tool reset_chroma_tool, its path naming target.
ResetFindsNoFolder(target) ==
    /\ ~Exists(disk, target)
    /\ Respond("reset_chroma_tool", target, "ok_none_found")
    /\ UNCHANGED <<_store, _embeddings, api_key, disk>>

ResetRemovesTree(target) ==
    /\ Exists(disk, target)
    /\ disk' = Removed(disk, target)
    /\ _store' = AfterRemoval(_store)
    /\ Respond("reset_chroma_tool", target, "ok_removed")
    /\ UNCHANGED <<_embeddings, api_key>>

ResetRmtreeRaises(target) ==
    /\ Exists(disk, target)
    /\ disk' \in PartlyRemoved(disk, target)
    /\ Respond("reset_chroma_tool", target, "error")
    /\ UNCHANGED <<_store, _embeddings, api_key>>

\* The tool reset_chroma_tool called with some path.
ResetNoFolder == \E target \in ResetTargets : ResetFindsNoFolder(target)
ResetRemoves == \E target \in ResetTargets : ResetRemovesTree(target)
ResetRaises == \E target \in ResetTargets : ResetRmtreeRaises(target)

----------------------------------------------------------------------------
(* The specifications.                                                     *)

ChunkInit == SegInit /\ IngIdle /\ QryIdle /\ CitIdle /\ SrvIdle
ChunkNext ==
    \/ ChunkStart /\ UNCHANGED <<ingVars, qryVars, citVars, srvVars>>
    \/ ChunkLoop /\ UNCHANGED <<ingVars, qryVars, citVars, srvVars>>
    \/ ChunkReturn /\ UNCHANGED <<ingVars, qryVars, citVars, srvVars>>
SpecChunk == ChunkInit /\ [][ChunkNext]_vars

IngestInit == SegIdle /\ IngInit /\ QryIdle /\ CitIdle /\ SrvIdle
IngestNext ==
    \/ IngestSkipNonPdf /\ UNCHANGED <<segVars, qryVars, citVars, srvVars>>
    \/ IngestExtractRaises /\ UNCHANGED <<segVars, qryVars, citVars, srvVars>>
    \/ IngestSkipEmpty /\ UNCHANGED <<segVars, qryVars, citVars, srvVars>>
    \/ IngestEncodeRaises /\ UNCHANGED <<segVars, qryVars, citVars, srvVars>>
    \/ IngestAddRaises /\ UNCHANGED <<segVars, qryVars, citVars, srvVars>>
    \/ IngestCommit /\ UNCHANGED <<segVars, qryVars, citVars, srvVars>>
    \/ IngestReturn /\ UNCHANGED <<segVars, qryVars, citVars, srvVars>>
SpecIngest == IngestInit /\ [][IngestNext]_vars

QueryInit == SegIdle /\ IngIdle /\ QryInit /\ CitIdle /\ SrvIdle
QueryNext ==
    \/ QueryEncodeRaises /\ UNCHANGED <<segVars, ingVars, citVars, srvVars>>
    \/ QueryStoreRaises /\ UNCHANGED <<segVars, ingVars, citVars, srvVars>>
    \/ QueryChroma /\ UNCHANGED <<segVars, ingVars, citVars, srvVars>>
    \/ QueryDegraded /\ UNCHANGED <<segVars, ingVars, citVars, srvVars>>
SpecQuery == QueryInit /\ [][QueryNext]_vars

CiteInit == SegIdle /\ IngIdle /\ QryIdle /\ CitInit /\ SrvIdle
CiteNext ==
    \/ CiteLookupOk /\ UNCHANGED <<segVars, ingVars, qryVars, srvVars>>
    \/ CiteLookupRaises /\ UNCHANGED <<segVars, ingVars, qryVars, srvVars>>
    \/ CiteReturn /\ UNCHANGED <<segVars, ingVars, qryVars, srvVars>>
SpecCite == CiteInit /\ [][CiteNext]_vars

ServerInit == SegIdle /\ IngIdle /\ QryIdle /\ CitIdle /\ SrvInit
ServerNext ==
    \/ IngestToolNoProvider /\ UNCHANGED <<segVars, ingVars, qryVars, citVars>>
    \/ IngestToolOpenRaises /\ UNCHANGED <<segVars, ingVars, qryVars, citVars>>
    \/ IngestToolRuns /\ UNCHANGED <<segVars, ingVars, qryVars, citVars>>
    \/ QueryToolNoProvider /\ UNCHANGED <<segVars, ingVars, qryVars, citVars>>
    \/ QueryToolOpenRaises /\ UNCHANGED <<segVars, ingVars, qryVars, citVars>>
    \/ QueryToolRuns /\ UNCHANGED <<segVars, ingVars, qryVars, citVars>>
    \/ ResetNoFolder /\ UNCHANGED <<segVars, ingVars, qryVars, citVars>>
    \/ ResetRemoves /\ UNCHANGED <<segVars, ingVars, qryVars, citVars>>
    \/ ResetRaises /\ UNCHANGED <<segVars, ingVars, qryVars, citVars>>
SpecServer == ServerInit /\ [][ServerNext]_vars

----------------------------------------------------------------------------
(* Vocabulary of the properties.                                           *)

\* The whitespace-delimited words of a text, in order (str.split()).
RECURSIVE Words(_)
Words(s) ==
    LET t == LStrip(s)
    IN IF t = <<>> THEN <<>>
       ELSE LET a == RunLen(t, 1, FALSE)
            IN <<SubSeq(t, 1, a)>> \o Words(SubSeq(t, a + 1, Len(t)))

\* A sequence without its first n elements.
Drop(xs, n) == IF n >= Len(xs) THEN <<>> ELSE SubSeq(xs, n + 1, Len(xs))

\* The words of the first chunk followed, for every later chunk, by its
\* words after the first ov.
RECURSIVE LaterWords(_, _)
LaterWords(chs, ov) ==
    IF chs = <<>> THEN <<>>
    ELSE Drop(Words(Head(chs)), ov) \o LaterWords(Tail(chs), ov)
Reconstruct(chs, ov) ==
    IF chs = <<>> THEN <<>> ELSE Words(Head(chs)) \o LaterWords(Tail(chs), ov)

ValidOverlap == 0 <= overlap /\ overlap < chunk_size

\* A text with no token.
Blank(s) == \A k \in 1..Len(s) : IsSpace(s[k])

\* The number of chunks file f of the walk segments into (0 when it is not
\* a PDF), and the sum over the first n files.
K(f) == IF IsPdf(files[f])
        THEN Len(ChunkText(files[f].text, DefaultChunkSize, DefaultOverlap))
        ELSE 0
RECURSIVE SumK(_)
SumK(n) == IF n = 0 THEN 0 ELSE SumK(n - 1) + K(n)

\* The entries the call has added, and those among them of source src.
NewEntries == Drop(store, Len(pre_store))
EntriesOf(src) == SelectSeq(NewEntries, LAMBDA e : e.meta.source = src)

\* The texts and metadata file f's whole batch carries, in order.
Batch(f) ==
    LET chs == ChunkText(files[f].text, DefaultChunkSize, DefaultOverlap)
    IN [j \in 1..K(f) |-> [text |-> chs[j],
                           meta |-> [source |-> FullPath(f), chunk_index |-> j - 1]]]
RECURSIVE Batches(_)
Batches(n) == IF n = 0 THEN <<>> ELSE Batches(n - 1) \o Batch(n)
Unlabelled(es) == [j \in 1..Len(es) |-> [text |-> es[j].text, meta |-> es[j].meta]]

Sources(log) == {log[k].source : k \in 1..Len(log)}

----------------------------------------------------------------------------
(* The properties.                                                         *)

\* C1: with overlap >= chunk_size the segmenter is rejected: it never
\* returns a chunk list, and it never stands in its loop with a pass to
\* make (a pass that would leave the window start where it was or behind).
C1_OverlapRejected ==
    overlap >= chunk_size =>
        /\ seg_pc # "done"
        /\ ~(seg_pc = "loop" /\ i < Len(tokens))

\* C2: a text of n tokens, 0 < n < chunk_size, segmented with
\* 0 <= overlap < chunk_size, yields exactly one chunk, the trimmed text.
C2_ShortTextOneChunk ==
    (seg_pc = "done" /\ ValidOverlap /\ 0 < Len(tokens) /\ Len(tokens) < chunk_size)
        => chunks = <<Strip(text)>>

\* C3: with 0 <= overlap < chunk_size the segmenter ends (after k passes the
\* window start is k * (chunk_size - overlap), there are never more passes
\* than tokens, the cap on the list is never what stops it) and the words
\* of the first chunk followed by each later chunk's words after its first
\* overlap are the words of the text, in order.
C3_Reconstructs ==
    ValidOverlap =>
        /\ seg_pc \in {"loop", "done"} =>
              /\ i = Len(chunks) * (chunk_size - overlap)
              /\ Len(chunks) <= Len(tokens)
              /\ Len(chunks) <= MaxChunks
              /\ (i < Len(tokens) => Len(chunks) < MaxChunks)
        /\ seg_pc = "done" => Reconstruct(chunks, overlap) = Words(text)

C3_Witness ==
    /\ seg_pc = "done" /\ ValidOverlap /\ overlap >= 1
    /\ Len(chunks) >= 3
    /\ \E j, k \in 1..Len(tokens) : Strip(tokens[j]) # Strip(tokens[k])

\* C4: when the ingest returns, the count is the sum of the documents'
\* chunk counts and the number of entries added, and the entries of each
\* document carry its path and the chunk_index values 0 .. k-1, each once.
C4_CountAndIndices ==
    ing_pc = "returned" =>
        /\ total_chunks = SumK(Len(files))
        /\ total_chunks = Len(store) - Len(pre_store)
        /\ SubSeq(store, 1, Len(pre_store)) = pre_store
        /\ \A f \in 1..Len(files) :
              /\ Len(EntriesOf(FullPath(f))) = K(f)
              /\ \A j \in 1..K(f) : EntriesOf(FullPath(f))[j].meta.chunk_index = j - 1
        /\ \A j \in 1..Len(NewEntries) :
              NewEntries[j].meta.source \in {FullPath(f) : f \in 1..Len(files)}

C4_Witness ==
    /\ ing_pc = "returned"
    /\ \E f, g \in 1..Len(files) : f # g /\ K(f) >= 2 /\ K(g) >= 1
    /\ total_chunks >= 3
    /\ pre_store # <<>>

\* C5: once the extractor, the provider or the store has raised on file j,
\* the call has ended with the error, at file j; nothing of a later file was
\* extracted, embedded or committed; and the store holds what it held
\* before the call followed by the whole batches of the files before j.
C5_FailFast ==
    fail_at # 0 =>
        /\ ing_pc = "raised"
        /\ file_idx = fail_at
        /\ \A k \in 1..Len(extracted) : extracted[k] <= FullPath(fail_at)
        /\ \A src \in Sources(encoded) \cup Sources(added) : src <= FullPath(fail_at)
        /\ SubSeq(store, 1, Len(pre_store)) = pre_store
        /\ Unlabelled(NewEntries) = Batches(fail_at - 1)

C5_Witness ==
    /\ ing_pc = "raised"
    /\ fail_at = 2 /\ Len(files) = 3
    /\ pre_store # <<>>
    /\ K(1) >= 2
    /\ added # <<>> /\ added[Len(added)].source = FullPath(2)

\* C8: a PDF whose text has no token is passed over: no embedding request
\* and no commit is made for it and no entry of it is stored; neither
\* encode nor add is ever called with an empty batch; and the ingest that
\* returns has counted only the other documents' chunks.
C8_EmptySkipped ==
    /\ \A f \in 1..Len(files) :
          (IsPdf(files[f]) /\ Blank(files[f].text)) =>
              /\ FullPath(f) \notin Sources(encoded) \cup Sources(added)
              /\ EntriesOf(FullPath(f)) = <<>>
    /\ \A k \in 1..Len(encoded) : encoded[k].n > 0
    /\ \A k \in 1..Len(added) : added[k].n > 0
    /\ ing_pc = "returned" =>
          /\ file_idx = Len(files) + 1
          /\ total_chunks = SumK(Len(files))

C8_Witness ==
    /\ ing_pc = "returned"
    /\ \E f, g, h \in 1..Len(files) :
          /\ f < g /\ g < h
          /\ IsPdf(files[f]) /\ files[f].text = <<" ", "\n">>
          /\ IsPdf(files[g]) /\ files[g].text = <<>>
          /\ IsPdf(files[h]) /\ EntriesOf(FullPath(h)) # <<>>

\* C6: a query the store answers with its matches returns, without raising,
\* min(top_k, m) results, the k-th built from the store's k-th match.
C6_TopKClamped ==
    /\ answer_kind = "chroma" => qry_pc = "returned"
    /\ qry_pc = "returned" =>
          /\ Len(results) = Min(top_k, Len(collection))
          /\ \A k \in 1..Len(results) :
                /\ results[k].text = Inner(out.documents)[k]
                /\ results[k].text = collection[k].text
                /\ answer_kind = "chroma" =>
                      /\ results[k].meta = collection[k].meta
                      /\ results[k].score = Distance(k)

C6_Witness ==
    /\ qry_pc = "returned" /\ answer_kind = "chroma"
    /\ top_k = MaxTopK /\ Len(collection) = 2 /\ Len(results) = 2
    /\ collection[1] # collection[2]

\* C9: every result a query returns has a mapping as meta and a number as
\* score, whatever the store's answer lacks.
C9_ResultShape ==
    qry_pc = "returned" =>
        \A k \in 1..Len(results) :
            /\ results[k].meta.t = "dict"
            /\ results[k].score.t = "float"

\* C7: once a lookup has raised, build_citations has ended with the error:
\* nothing is returned, for any style, also when earlier lookups gave
\* records, and no lookup after the failing one is issued.
C7_NotIsolated ==
    cit_fail_at # 0 =>
        /\ cit_pc = "raised"
        /\ cit_out = NoOutput
        /\ cit_idx = cit_fail_at
        /\ Len(issued) = cit_fail_at
        /\ Len(messages) = cit_fail_at - 1

C7_Witness ==
    /\ cit_pc = "raised" /\ cit_fail_at = 2 /\ Len(identifiers) = 3
    /\ messages # <<>> /\ style = "json"

\* C10: the cached store handle never refers to a storage directory that a
\* reset has removed.
C10_HandleNeverStale ==
    _store # "None" => disk.store_dir # "absent"

====
